---- MODULE Spec2Model ----
(***************************************************************************)
(* Model of preprocessing.py: the two dump parsers (read_v10, read_v8),    *)
(* reference resolution, create_graph, write_raw / load_raw and the        *)
(* preprocess orchestrator, driven by a client script that calls the       *)
(* module's functions one after the other.  An uncaught exception ends the *)
(* script (the module has no handler except safe_append's KeyError).       *)
(*                                                                         *)
(* Text is a sequence of one-character strings, so slicing, split and int  *)
(* are computed as Python computes them.  Dictionary keys carry their      *)
(* Python type, so that the text "1" and the integer 1 are different keys. *)
(***************************************************************************)
EXTENDS Integers, Sequences, FiniteSets, TLC

\* Bounds of the model.
MaxLines == 2      \* lines read from one input file
MaxFiles == 2      \* files yielded by os.walk
MaxCalls == 2      \* calls made by the client script

VARIABLES
    stack,                  \* call stack, innermost frame last
    exc,                    \* the uncaught exception, or "none"
    ncalls,                 \* calls made by the script so far
    call,                   \* the script's current / last call
    parsed_data,            \* the script's dataset (last parser result)
    loaded,                 \* the script's last load_raw result
    graph,                  \* the script's last create_graph result
    papers, first_authors, collaboration_authors,
    references_flat, id2idx, idx,        \* locals of the running parser
    cur,                    \* working fields of the V8 parser
    nread, nfiles,          \* lines read of the open file, files visited
    input,                  \* the files read so far, each the lines read of it
    fsops,                  \* filesystem operations of the current script call
    v8Runs, v10Runs,        \* parser invocations of the current script call
    disk                    \* the raw-dataset files: path -> content

pvars == <<papers, first_authors, collaboration_authors, references_flat,
           id2idx, idx, cur, nread, nfiles, input>>
svars == <<parsed_data, loaded, graph>>
vars == <<stack, exc, ncalls, call, parsed_data, loaded, graph,
          papers, first_authors, collaboration_authors, references_flat,
          id2idx, idx, cur, nread, nfiles, input, fsops, v8Runs, v10Runs,
          disk>>

-----------------------------------------------------------------------------
\* Python values

EmptyDict == [k \in {} |-> <<>>]

\* A dictionary key with its Python type: str, int or (unhashable) list.
StrKey(s)  == [t |-> "str",  s |-> s,    n |-> 0]
IntKey(n)  == [t |-> "int",  s |-> <<>>, n |-> n]
ListKey(s) == [t |-> "list", s |-> s,    n |-> 0]

\* A value whose type decides an operation: a list or an int.
PyList(items) == [t |-> "list", n |-> 0, items |-> items]

Digits == {"0", "1", "2", "3", "4", "5", "6", "7", "8", "9"}

DigitVal(c) ==
    CASE c = "0" -> 0 [] c = "1" -> 1 [] c = "2" -> 2 [] c = "3" -> 3
      [] c = "4" -> 4 [] c = "5" -> 5 [] c = "6" -> 6 [] c = "7" -> 7
      [] c = "8" -> 8 [] OTHER -> 9

\* line[a:-1]
SliceToLast(line, a) ==
    IF a + 1 <= Len(line) - 1 THEN SubSeq(line, a + 1, Len(line) - 1) ELSE <<>>

\* text.split(","): "" gives [""]
RECURSIVE SplitFrom(_, _, _)
SplitFrom(text, i, acc) ==
    IF i > Len(text) THEN <<acc>>
    ELSE IF text[i] = "," THEN <<acc>> \o SplitFrom(text, i + 1, <<>>)
    ELSE SplitFrom(text, i + 1, Append(acc, text[i]))

Split(text) == SplitFrom(text, 1, <<>>)

\* int(text) on the texts of the model (digit strings, with an optional
\* line break at the end, which int() strips): [ok, val]
RECURSIVE DigitsVal(_, _)
DigitsVal(text, acc) ==
    IF text = <<>> THEN acc
    ELSE DigitsVal(Tail(text), 10 * acc + DigitVal(Head(text)))

StripBreak(text) ==
    IF Len(text) > 0 /\ text[Len(text)] = "\n"
    THEN SubSeq(text, 1, Len(text) - 1) ELSE text

PyInt(text) ==
    LET s == StripBreak(text) IN
    IF Len(s) > 0 /\ \A i \in 1..Len(s) : s[i] \in Digits
    THEN [ok |-> TRUE, val |-> DigitsVal(s, 0)]
    ELSE [ok |-> FALSE, val |-> 0]

\* lst[i] = v on a Python list: an index past the end raises IndexError
ListSetItem(lst, i, v) ==
    IF i >= 0 /\ i < Len(lst)
    THEN [ok |-> TRUE, val |-> [lst EXCEPT ![i + 1] = v]]
    ELSE [ok |-> FALSE, val |-> lst]

\* dict[key] = v
DictSet(dict, key, v) ==
    [k \in DOMAIN dict \cup {key} |-> IF k = key THEN v ELSE dict[k]]

safe_append(dict, id, elem) ==
    IF id \in DOMAIN dict
    THEN [dict EXCEPT ![id] = Append(@, elem)]
    ELSE DictSet(dict, id, <<elem>>)

RECURSIVE AppendAll(_, _, _)
\* for author in authors: safe_append(dict, author, elem)
AppendAll(dict, authors, elem) ==
    IF authors = <<>> THEN dict
    ELSE AppendAll(safe_append(dict, Head(authors), elem), Tail(authors), elem)

Paper(title, authors, venue, year, abstract) ==
    [title |-> title, authors |-> authors, venue |-> venue,
     year |-> year, abstract |-> abstract]

Dataset(p, fa, ca, refs) ==
    [present |-> TRUE, papers |-> p, first_authors |-> fa,
     collaboration_authors |-> ca, references_flat |-> refs]

NoData ==
    [present |-> FALSE, papers |-> <<>>, first_authors |-> EmptyDict,
     collaboration_authors |-> EmptyDict, references_flat |-> <<>>]

-----------------------------------------------------------------------------
\* Reference resolution: [(id2idx[e[0]], id2idx[e[1]]) for e in references_flat]

\* id2idx[key]
Lookup(map, key) ==
    IF key.t = "list" THEN [exc |-> "TypeError", val |-> 0]
    ELSE IF key \in DOMAIN map THEN [exc |-> "none", val |-> map[key]]
    ELSE [exc |-> "KeyError", val |-> 0]

RECURSIVE ResolveFrom(_, _, _, _)
ResolveFrom(refs, map, i, acc) ==
    IF i > Len(refs) THEN [exc |-> "none", val |-> acc]
    ELSE LET a == Lookup(map, refs[i][1])
             b == Lookup(map, refs[i][2])
         IN IF a.exc # "none" THEN [exc |-> a.exc, val |-> refs]
            ELSE IF b.exc # "none" THEN [exc |-> b.exc, val |-> refs]
            ELSE ResolveFrom(refs, map, i + 1, Append(acc, <<a.val, b.val>>))

\* Resolution that drops a pair it cannot look up instead of raising
RECURSIVE ResolveSkipping(_, _)
ResolveSkipping(refs, map) ==
    IF refs = <<>> THEN [exc |-> "none", val |-> <<>>]
    ELSE LET e == Head(refs)
             rest == ResolveSkipping(Tail(refs), map)
         IN IF Lookup(map, e[1]).exc = "none" /\ Lookup(map, e[2]).exc = "none"
            THEN [rest EXCEPT !.val = <<<<map[e[1]], map[e[2]]>>>> \o @]
            ELSE rest

ResolveRefs(refs, map) == ResolveFrom(refs, map, 1, <<>>)

-----------------------------------------------------------------------------
\* create_graph, with igraph (withIgraph) or graph_tool

NoGraph == [present |-> FALSE, n |-> 0, edges |-> <<>>]

\* range(v): only an int can be a range bound
PyRange(v) ==
    IF v.t = "int" THEN [exc |-> "none", n |-> v.n]
    ELSE [exc |-> "TypeError", n |-> 0]

\* g.add_edges(edges) on a graph of n vertices: endpoints must be vertices
AddEdges(n, edges) ==
    IF \A i \in 1..Len(edges) :
           /\ edges[i][1] \in 0..(n - 1)
           /\ edges[i][2] \in 0..(n - 1)
    THEN [exc |-> "none", val |-> [present |-> TRUE, n |-> n, edges |-> edges]]
    ELSE [exc |-> "ValueError", val |-> NoGraph]

create_graph(pd, withIgraph) ==
    IF withIgraph
    THEN LET r == PyRange(PyList(pd.papers))      \* range(parsed_data["papers"])
         IN IF r.exc # "none" THEN [exc |-> r.exc, val |-> NoGraph]
            ELSE AddEdges(r.n, pd.references_flat)
    ELSE \* parsed_data[len(parsed_data["papers"])]: an int is no key of the dataset
         [exc |-> "KeyError", val |-> NoGraph]

-----------------------------------------------------------------------------
\* The raw-dataset files

DefaultDataPath == "D"     \* join(dirname(realpath(__file__)), ".data")
DataPaths == {DefaultDataPath, "P"}

Join(a, b, c) == <<a, b, c>>

LinesFile(lines) == [kind |-> "lines", lines |-> lines, doc |-> <<>>]
JsonFile(doc)    == [kind |-> "json",  lines |-> <<>>,  doc |-> doc]

\* open(path) without a mode opens for reading: the file must exist
OpenRead(dsk, path) ==
    IF path \in DOMAIN dsk THEN "none" ELSE "FileNotFoundError"

\* f.write on a file opened for reading
WriteTo(dsk, path, content) ==
    [exc |-> "UnsupportedOperation", disk |-> dsk]

\* What each with-block of write_raw does with its file: whether computing the
\* content raises before a write, and whether anything is written at all.
WriteSteps(pd) ==
    << [name |-> "papers", pre |-> "none", writes |-> TRUE,
        content |-> JsonFile(pd.papers)],
       \* parsed_data["papers"].keys(): papers is a list
       [name |-> "papers_id", pre |-> "AttributeError", writes |-> FALSE,
        content |-> LinesFile(<<>>)],
       [name |-> "first_authors", pre |-> "none", writes |-> TRUE,
        content |-> JsonFile(pd.first_authors)],
       [name |-> "collaboration_authors", pre |-> "none", writes |-> TRUE,
        content |-> JsonFile(pd.collaboration_authors)],
       [name |-> "references_flat", pre |-> "none",
        writes |-> pd.references_flat # <<>>,
        content |-> LinesFile(pd.references_flat)] >>

RECURSIVE WriteFrom(_, _, _, _)
WriteFrom(dsk, dp, steps, i) ==
    IF i > Len(steps) THEN [exc |-> "none", disk |-> dsk]
    ELSE LET path == Join(dp, steps[i].name, "w")
             o == OpenRead(dsk, path)
         IN IF o # "none" THEN [exc |-> o, disk |-> dsk]
            ELSE IF steps[i].pre # "none" THEN [exc |-> steps[i].pre, disk |-> dsk]
            ELSE IF ~steps[i].writes THEN WriteFrom(dsk, dp, steps, i + 1)
            ELSE LET w == WriteTo(dsk, path, steps[i].content)
                 IN IF w.exc # "none" THEN w
                    ELSE WriteFrom(w.disk, dp, steps, i + 1)

write_raw(dsk, dp, pd) == WriteFrom(dsk, dp, WriteSteps(pd), 1)

NoLoad ==
    [present |-> FALSE, meta |-> FALSE, keys |-> <<>>, references_flat |-> <<>>,
     papers |-> <<>>, first_authors |-> <<>>, collaboration_authors |-> <<>>]

\* [int(i) for i in f]
RECURSIVE IntsOf(_, _, _)
IntsOf(lines, i, acc) ==
    IF i > Len(lines) THEN [exc |-> "none", val |-> acc]
    ELSE LET r == PyInt(lines[i])
         IN IF r.ok THEN IntsOf(lines, i + 1, Append(acc, r.val))
            ELSE [exc |-> "ValueError", val |-> <<>>]

\* [row for row in csv.reader(f)]: every field is text
CsvRows(lines) == [i \in 1..Len(lines) |-> Split(StripBreak(lines[i]))]

\* json.load(f)
JsonLoad(file) ==
    IF file.kind = "json" THEN [exc |-> "none", val |-> file.doc]
    ELSE [exc |-> "JSONDecodeError", val |-> <<>>]

load_raw(dsk, dp, net_struct) ==
    LET pk == Join(dp, "papers_id", "r")
        pr == Join(dp, "references_flat", "r")
        pp == Join(dp, "papers", "r")
        pf == Join(dp, "first_authors", "r")
        pc == Join(dp, "collaboration_authors", "r")
        fail(e) == [exc |-> e, val |-> NoLoad]
    IN IF OpenRead(dsk, pk) # "none" THEN fail(OpenRead(dsk, pk))
       ELSE LET ks == IntsOf(dsk[pk].lines, 1, <<>>)
       IN IF ks.exc # "none" THEN fail(ks.exc)
       ELSE IF OpenRead(dsk, pr) # "none" THEN fail(OpenRead(dsk, pr))
       ELSE LET rows == CsvRows(dsk[pr].lines)
                base == [NoLoad EXCEPT !.present = TRUE, !.keys = ks.val,
                                       !.references_flat = rows]
       IN IF net_struct THEN [exc |-> "none", val |-> base]
       ELSE IF OpenRead(dsk, pp) # "none" THEN fail(OpenRead(dsk, pp))
       ELSE IF JsonLoad(dsk[pp]).exc # "none" THEN fail(JsonLoad(dsk[pp]).exc)
       ELSE IF OpenRead(dsk, pf) # "none" THEN fail(OpenRead(dsk, pf))
       ELSE IF JsonLoad(dsk[pf]).exc # "none" THEN fail(JsonLoad(dsk[pf]).exc)
       ELSE IF OpenRead(dsk, pc) # "none" THEN fail(OpenRead(dsk, pc))
       ELSE IF JsonLoad(dsk[pc]).exc # "none" THEN fail(JsonLoad(dsk[pc]).exc)
       ELSE [exc |-> "none",
             val |-> [base EXCEPT !.meta = TRUE,
                        !.papers = JsonLoad(dsk[pp]).val,
                        !.first_authors = JsonLoad(dsk[pf]).val,
                        !.collaboration_authors = JsonLoad(dsk[pc]).val]]

-----------------------------------------------------------------------------
\* Inputs: the lines of a V8 dump and the records of a V10 dump

\* (a venue line "#c.." or an abstract line "#!.." sets its field as a title
\* line does)
V8Lines ==
    { <<"#", "*", "A", "\n">>,                        \* title
      <<"#", "@", "X", ",", "Y", "\n">>,              \* authors
      <<"#", "t", "7", "\n">>,                        \* year
      <<"#", "t", "x", "\n">>,                        \* year that is no integer
      <<"#", "i", "n", "d", "e", "x", "1", "\n">>,    \* id
      <<"#", "i", "n", "d", "e", "x", "2", "\n">>,
      <<"#", "%", "1", "\n">>,                        \* reference
      <<"\n">> }                                      \* non-tagged line

\* A decoded V10 line (json.loads), or a line that is no JSON
V10Record(id, authors, refs) ==
    [json |-> TRUE, id |-> id, title |-> <<"T">>, authors |-> authors,
     venue |-> <<"V">>, year |-> 7, abstract |-> <<"B">>, references |-> refs]

V10Lines ==
    { V10Record(<<"a">>, << <<"X">>, <<"Y">> >>, <<>>),
      V10Record(<<"b">>, << <<"X">> >>, << <<"a">>, <<"z">> >>),
      V10Record(<<"c">>, <<>>, << <<"c">> >>),
      [V10Record(<<>>, <<>>, <<>>) EXCEPT !.json = FALSE] }

-----------------------------------------------------------------------------
\* Frames

Args(dumpGraph, dumpRawData, v10, v8, dumpLight, data_path) ==
    [dumpGraph |-> dumpGraph, dumpRawData |-> dumpRawData, v10 |-> v10,
     v8 |-> v8, dumpLight |-> dumpLight, data_path |-> data_path]

PathArgs(dp) == Args(FALSE, FALSE, FALSE, FALSE, FALSE, dp)

Frame(fn, pc, a) == [fn |-> fn, pc |-> pc, a |-> a, d |-> NoData]

Top == stack[Len(stack)]
Running(fn, pc) ==
    /\ exc = "none"
    /\ stack # <<>>
    /\ Top.fn = fn
    /\ Top.pc = pc

SetTop(f) == [stack EXCEPT ![Len(stack)] = f]
Goto(pc) == stack' = SetTop([Top EXCEPT !.pc = pc])

\* paper_id, title, authors, venue, year, abstract = -1, '', [], '', 0, ''
Defaults ==
    [paper_id |-> IntKey(-1), title |-> <<>>, authors |-> <<>>,
     venue |-> <<>>, year |-> 0, abstract |-> <<>>]

\* papers = []; first_authors = {}; ...; id2idx = {}; idx = 0
FreshLocals ==
    /\ papers' = <<>>
    /\ first_authors' = EmptyDict
    /\ collaboration_authors' = EmptyDict
    /\ references_flat' = <<>>
    /\ id2idx' = EmptyDict
    /\ idx' = 0
    /\ cur' = Defaults
    /\ nread' = 0
    /\ nfiles' = 0
    /\ input' = <<>>

\* The input grows by a file that was opened, or by a line of the last file
NewFile(inp) == Append(inp, <<>>)
NewLine(inp, line) == [inp EXCEPT ![Len(inp)] = Append(@, line)]

Raise(e) == exc' = e /\ UNCHANGED stack

\* return parsed_data: to the calling preprocess frame, or to the script
ParserReturn(pd) ==
    IF Len(stack) = 1
    THEN /\ stack' = <<>>
         /\ parsed_data' = pd
    ELSE /\ stack' = [i \in 1..(Len(stack) - 1) |->
                        IF i = Len(stack) - 1
                        THEN [stack[i] EXCEPT !.d = pd] ELSE stack[i]]
         /\ UNCHANGED parsed_data

-----------------------------------------------------------------------------
\* read_v8

\* One tagged line: the new working fields, reference list and id mapping
V8Tagged(line, c, refs, map, i) ==
    LET body == SliceToLast(line, 2)
        same == [exc |-> "none", cur |-> c, refs |-> refs, map |-> map]
    IN IF Len(line) < 2 THEN [same EXCEPT !.exc = "IndexError"]
       ELSE IF line[2] = "*" THEN [same EXCEPT !.cur.title = body]
       ELSE IF line[2] = "@" THEN [same EXCEPT !.cur.authors = Split(body)]
       ELSE IF line[2] = "t"
            THEN IF PyInt(body).ok
                 THEN [same EXCEPT !.cur.year = PyInt(body).val]
                 ELSE [same EXCEPT !.exc = "ValueError"]
       ELSE IF line[2] = "c" THEN [same EXCEPT !.cur.venue = body]
       ELSE IF line[2] = "i"
            THEN LET pid == StrKey(SliceToLast(line, 6))
                 IN [same EXCEPT !.cur.paper_id = pid,
                                 !.map = DictSet(map, pid, i)]
       ELSE IF line[2] = "%"
            THEN IF PyInt(body).ok
                 THEN [same EXCEPT
                         !.refs = Append(refs, <<c.paper_id, IntKey(PyInt(body).val)>>)]
                 ELSE [same EXCEPT !.exc = "ValueError"]
       ELSE IF line[2] = "!" THEN [same EXCEPT !.cur.abstract = body]
       ELSE same

\* One non-tagged line: store the paper, register its authors, advance the
\* index, reset the working fields; the statements before a raise have acted.
V8Finalize(c, paps, fa, ca, i) ==
    LET st == ListSetItem(paps, i,
                  Paper(c.title, c.authors, c.venue, c.year, c.abstract))
        same == [exc |-> "none", cur |-> c, papers |-> paps,
                 first_authors |-> fa, collaboration_authors |-> ca, idx |-> i]
    IN IF ~st.ok THEN [same EXCEPT !.exc = "IndexError"]
       ELSE IF c.authors = <<>>          \* authors[0]
            THEN [same EXCEPT !.exc = "IndexError", !.papers = st.val]
       ELSE [exc |-> "none", cur |-> Defaults, papers |-> st.val,
             first_authors |-> safe_append(fa, c.authors[1], i),
             collaboration_authors |-> AppendAll(ca, c.authors, i),
             idx |-> i + 1]

V8Open ==
    /\ Running("read_v8", "open")
    /\ fsops' = fsops \cup {"open"}
    /\ \E exists \in BOOLEAN :
           IF exists
           THEN Goto("loop") /\ input' = NewFile(input) /\ UNCHANGED exc
           ELSE Raise("FileNotFoundError") /\ UNCHANGED input
    /\ cur' = Defaults
    /\ UNCHANGED <<ncalls, call, svars, papers, first_authors,
                   collaboration_authors, references_flat, id2idx, idx,
                   nread, nfiles, v8Runs, v10Runs, disk>>

V8Line ==
    /\ Running("read_v8", "loop")
    /\ nread < MaxLines
    /\ \E line \in V8Lines :
         /\ input' = NewLine(input, line)
         /\ IF line[1] = "#"
            THEN LET r == V8Tagged(line, cur, references_flat, id2idx, idx)
                 IN /\ exc' = r.exc
                    /\ cur' = r.cur
                    /\ references_flat' = r.refs
                    /\ id2idx' = r.map
                    /\ UNCHANGED <<papers, first_authors, collaboration_authors, idx>>
            ELSE LET r == V8Finalize(cur, papers, first_authors,
                                     collaboration_authors, idx)
                 IN /\ exc' = r.exc
                    /\ cur' = r.cur
                    /\ papers' = r.papers
                    /\ first_authors' = r.first_authors
                    /\ collaboration_authors' = r.collaboration_authors
                    /\ idx' = r.idx
                    /\ UNCHANGED <<references_flat, id2idx>>
    /\ nread' = nread + 1
    /\ fsops' = fsops \cup {"read"}
    /\ UNCHANGED <<stack, ncalls, call, svars, nfiles, v8Runs, v10Runs, disk>>

\* the file is exhausted
V8Eof ==
    /\ Running("read_v8", "loop")
    /\ Goto("resolve")
    /\ fsops' = fsops \cup {"read"}
    /\ UNCHANGED <<exc, ncalls, call, svars, pvars, v8Runs, v10Runs, disk>>

V8Resolve ==
    /\ Running("read_v8", "resolve")
    /\ LET r == ResolveRefs(references_flat, id2idx)
       IN IF r.exc # "none"
          THEN /\ Raise(r.exc)
               /\ UNCHANGED <<references_flat, parsed_data>>
          ELSE /\ references_flat' = r.val
               /\ ParserReturn(Dataset(papers, first_authors,
                                       collaboration_authors, r.val))
               /\ UNCHANGED exc
    /\ UNCHANGED <<ncalls, call, loaded, graph, papers, first_authors,
                   collaboration_authors, id2idx, idx, cur, nread, nfiles,
                   input, fsops, v8Runs, v10Runs, disk>>

-----------------------------------------------------------------------------
\* read_v10

\* One line of an open file: decode it and record the paper
V10Record1(rec, paps, fa, ca, refs, map, i) ==
    LET same == [exc |-> "none", papers |-> paps, first_authors |-> fa,
                 collaboration_authors |-> ca, refs |-> refs, map |-> map]
        map1 == DictSet(map, StrKey(rec.id), i)
        st == ListSetItem(paps, i,
                  Paper(rec.title, rec.authors, rec.venue, rec.year, rec.abstract))
    IN IF ~rec.json THEN [same EXCEPT !.exc = "JSONDecodeError"]
       ELSE IF ~st.ok THEN [same EXCEPT !.exc = "IndexError", !.map = map1]
       ELSE IF rec.authors = <<>>        \* paper["authors"][0]
            THEN [same EXCEPT !.exc = "IndexError", !.map = map1,
                              !.papers = st.val]
       ELSE [exc |-> "none", papers |-> st.val,
             first_authors |-> safe_append(fa, rec.authors[1], i),
             collaboration_authors |-> AppendAll(ca, rec.authors, i),
             \* references_flat.append(([paper["id"]], reference))
             refs |-> refs \o [k \in 1..Len(rec.references) |->
                                 <<ListKey(rec.id), StrKey(rec.references[k])>>],
             map |-> map1]

\* os.walk yields the next file, which is opened under dblp.v10, or ends
V10Walk ==
    /\ Running("read_v10", "walk")
    /\ \E more \in BOOLEAN :
         IF more /\ nfiles < MaxFiles
         THEN /\ nfiles' = nfiles + 1
              /\ nread' = 0
              /\ fsops' = fsops \cup {"walk", "open"}
              /\ \E exists \in BOOLEAN :
                     IF exists
                     THEN Goto("lines") /\ input' = NewFile(input)
                          /\ UNCHANGED exc
                     ELSE Raise("FileNotFoundError") /\ UNCHANGED input
         ELSE /\ Goto("resolve")
              /\ fsops' = fsops \cup {"walk"}
              /\ UNCHANGED <<exc, nfiles, nread, input>>
    /\ UNCHANGED <<ncalls, call, svars, papers, first_authors,
                   collaboration_authors, references_flat, id2idx, idx, cur,
                   v8Runs, v10Runs, disk>>

V10Line ==
    /\ Running("read_v10", "lines")
    /\ nread < MaxLines
    /\ \E rec \in V10Lines :
         /\ input' = NewLine(input, rec)
         /\ LET r == V10Record1(rec, papers, first_authors, collaboration_authors,
                                references_flat, id2idx, idx)
            IN /\ exc' = r.exc
               /\ papers' = r.papers
               /\ first_authors' = r.first_authors
               /\ collaboration_authors' = r.collaboration_authors
               /\ references_flat' = r.refs
               /\ id2idx' = r.map
    /\ nread' = nread + 1
    /\ fsops' = fsops \cup {"read"}
    /\ UNCHANGED <<stack, ncalls, call, svars, idx, cur, nfiles,
                   v8Runs, v10Runs, disk>>

\* the open file is exhausted: idx += 1, once for the file
V10EndFile ==
    /\ Running("read_v10", "lines")
    /\ idx' = idx + 1
    /\ Goto("walk")
    /\ fsops' = fsops \cup {"read"}
    /\ UNCHANGED <<exc, ncalls, call, svars, papers, first_authors,
                   collaboration_authors, references_flat, id2idx, cur,
                   nread, nfiles, input, v8Runs, v10Runs, disk>>

V10Resolve ==
    /\ Running("read_v10", "resolve")
    /\ LET r == ResolveRefs(references_flat, id2idx)
       IN IF r.exc # "none"
          THEN /\ Raise(r.exc)
               /\ UNCHANGED <<references_flat, parsed_data>>
          ELSE /\ references_flat' = r.val
               /\ ParserReturn(Dataset(papers, first_authors,
                                       collaboration_authors, r.val))
               /\ UNCHANGED exc
    /\ UNCHANGED <<ncalls, call, loaded, graph, papers, first_authors,
                   collaboration_authors, id2idx, idx, cur, nread, nfiles,
                   input, fsops, v8Runs, v10Runs, disk>>

-----------------------------------------------------------------------------
\* preprocess

\* if data_path is None: data_path = <directory of this file>/.data
PreStart ==
    /\ Running("preprocess", "start")
    /\ stack' = SetTop([Top EXCEPT
                          !.pc = "dual",
                          !.a.data_path = IF @ = "None" THEN DefaultDataPath ELSE @])
    /\ UNCHANGED <<exc, ncalls, call, svars, pvars, fsops, v8Runs, v10Runs, disk>>

\* if v10 and v8: preprocess(dumpGraph, dumpRawData, False, True, dumpLight)
PreDual ==
    /\ Running("preprocess", "dual")
    /\ IF Top.a.v10 /\ Top.a.v8
       THEN stack' = Append(SetTop([Top EXCEPT !.pc = "select"]),
                            Frame("preprocess", "start",
                                  Args(Top.a.dumpGraph, Top.a.dumpRawData,
                                       FALSE, TRUE, Top.a.dumpLight, "None")))
       ELSE Goto("select")
    /\ UNCHANGED <<exc, ncalls, call, svars, pvars, fsops, v8Runs, v10Runs, disk>>

\* A selection that falls back to V8 when no format is asked for
SelectParserNoCheck(v10, v8) ==
    IF v10 THEN "read_v10" ELSE "read_v8"

\* Which branch of "if v10 / elif v8 / else" is taken
SelectParser(v10, v8) ==
    IF v10 THEN "read_v10" ELSE IF v8 THEN "read_v8" ELSE "ValueError"

PreSelect ==
    /\ Running("preprocess", "select")
    /\ LET sel == SelectParser(Top.a.v10, Top.a.v8)
       IN IF sel = "ValueError"
          THEN /\ Raise("ValueError")
               /\ UNCHANGED <<pvars, v8Runs, v10Runs>>
          ELSE /\ stack' = Append(SetTop([Top EXCEPT !.pc = "dump_raw"]),
                                  Frame(sel,
                                        IF sel = "read_v10" THEN "walk" ELSE "open",
                                        PathArgs(Top.a.data_path)))
               /\ FreshLocals
               /\ v10Runs' = IF sel = "read_v10" THEN v10Runs + 1 ELSE v10Runs
               /\ v8Runs' = IF sel = "read_v8" THEN v8Runs + 1 ELSE v8Runs
               /\ UNCHANGED exc
    /\ UNCHANGED <<ncalls, call, svars, fsops, disk>>

\* if dumpRawData: write_raw(data_path, parsed_data)
PreDumpRaw ==
    /\ Running("preprocess", "dump_raw")
    /\ IF Top.a.dumpRawData
       THEN LET r == write_raw(disk, Top.a.data_path, Top.d)
            IN /\ fsops' = fsops \cup {"open"}
               /\ disk' = r.disk
               /\ IF r.exc # "none" THEN Raise(r.exc)
                  ELSE Goto("graph") /\ UNCHANGED exc
       ELSE Goto("graph") /\ UNCHANGED <<exc, fsops, disk>>
    /\ UNCHANGED <<ncalls, call, svars, pvars, v8Runs, v10Runs>>

\* graph, withIgraph = create_graph(parsed_data); if dumpGraph:
\* graph.write_pickle() (no file name: the pickle is returned, nothing is
\* written); then the call returns to its caller
PreGraph ==
    /\ Running("preprocess", "graph")
    /\ LET r == create_graph(Top.d, TRUE)
       IN IF r.exc # "none" THEN Raise(r.exc)
          ELSE /\ stack' = SubSeq(stack, 1, Len(stack) - 1)
               /\ UNCHANGED exc
    /\ UNCHANGED <<ncalls, call, svars, pvars, fsops, v8Runs, v10Runs, disk>>

-----------------------------------------------------------------------------
\* The client script: one call after the other, until an exception

NoCall == [fn |-> "none", a |-> PathArgs("None"), flag |-> FALSE]

Idle ==
    /\ stack = <<>>
    /\ exc = "none"
    /\ ncalls < MaxCalls

Begin(fn, a, flag) ==
    /\ Idle
    /\ ncalls' = ncalls + 1
    /\ call' = [fn |-> fn, a |-> a, flag |-> flag]

CallPreprocess ==
    \E dumpGraph, dumpRawData, v10, v8, dumpLight \in BOOLEAN :
    \E data_path \in {"None", "P"} :
       LET a == Args(dumpGraph, dumpRawData, v10, v8, dumpLight, data_path)
       IN /\ Begin("preprocess", a, FALSE)
          /\ stack' = <<Frame("preprocess", "start", a)>>
          /\ FreshLocals
          /\ fsops' = {}
          /\ v8Runs' = 0
          /\ v10Runs' = 0
          /\ UNCHANGED <<exc, svars, disk>>

CallReadV8 ==
    \E dp \in DataPaths :
       /\ Begin("read_v8", PathArgs(dp), FALSE)
       /\ stack' = <<Frame("read_v8", "open", PathArgs(dp))>>
       /\ FreshLocals
       /\ fsops' = {}
       /\ v8Runs' = 1
       /\ v10Runs' = 0
       /\ UNCHANGED <<exc, svars, disk>>

CallReadV10 ==
    \E dp \in DataPaths :
       /\ Begin("read_v10", PathArgs(dp), FALSE)
       /\ stack' = <<Frame("read_v10", "walk", PathArgs(dp))>>
       /\ FreshLocals
       /\ fsops' = {}
       /\ v8Runs' = 0
       /\ v10Runs' = 1
       /\ UNCHANGED <<exc, svars, disk>>

\* write_raw(data_path, parsed_data) on a dataset a parser returned
CallWriteRaw ==
    \E dp \in DataPaths :
       /\ parsed_data.present
       /\ Begin("write_raw", PathArgs(dp), FALSE)
       /\ LET r == write_raw(disk, dp, parsed_data)
          IN /\ exc' = r.exc
             /\ disk' = r.disk
       /\ FreshLocals
       /\ fsops' = {"open"}
       /\ v8Runs' = 0
       /\ v10Runs' = 0
       /\ UNCHANGED <<stack, svars>>

\* create_graph(parsed_data, withIgraph) on a dataset a parser returned
CallCreateGraph ==
    \E withIgraph \in BOOLEAN :
       /\ parsed_data.present
       /\ Begin("create_graph", PathArgs("None"), withIgraph)
       /\ LET r == create_graph(parsed_data, withIgraph)
          IN /\ exc' = r.exc
             /\ graph' = r.val
       /\ FreshLocals
       /\ fsops' = {}
       /\ v8Runs' = 0
       /\ v10Runs' = 0
       /\ UNCHANGED <<stack, parsed_data, loaded, disk>>

CallLoadRaw ==
    \E dp \in DataPaths, net_struct \in BOOLEAN :
       /\ Begin("load_raw", PathArgs(dp), net_struct)
       /\ LET r == load_raw(disk, dp, net_struct)
          IN /\ exc' = r.exc
             /\ loaded' = r.val
       /\ FreshLocals
       /\ fsops' = {"open"}
       /\ v8Runs' = 0
       /\ v10Runs' = 0
       /\ UNCHANGED <<stack, parsed_data, graph, disk>>

-----------------------------------------------------------------------------
\* Initial disks: nothing there; the "w" paths and the two structural "r"
\* paths there; all the "r" paths there

RawNames ==
    {"papers", "papers_id", "first_authors", "collaboration_authors",
     "references_flat"}

SamplePaper == Paper(<<"A">>, << <<"X">> >>, <<"V">>, 7, <<"B">>)

SampleFile(name) ==
    IF name = "papers_id" THEN LinesFile(<< <<"0", "\n">> >>)
    ELSE IF name = "references_flat" THEN LinesFile(<< <<"0", ",", "0", "\n">> >>)
    ELSE IF name = "papers" THEN JsonFile(<<SamplePaper>>)
    ELSE JsonFile([k \in {<<"X">>} |-> <<0>>])

WStructDisk(dp) ==
    [p \in {Join(dp, n, "w") : n \in RawNames}
            \cup {Join(dp, "papers_id", "r"), Join(dp, "references_flat", "r")}
       |-> IF p[3] = "w" THEN LinesFile(<<>>) ELSE SampleFile(p[2])]

RDisk(dp) == [p \in {Join(dp, n, "r") : n \in RawNames} |-> SampleFile(p[2])]

InitDisks == {EmptyDict, WStructDisk("P"), RDisk("P")}

Init ==
    /\ stack = <<>>
    /\ exc = "none"
    /\ ncalls = 0
    /\ call = NoCall
    /\ parsed_data = NoData
    /\ loaded = NoLoad
    /\ graph = NoGraph
    /\ papers = <<>>
    /\ first_authors = EmptyDict
    /\ collaboration_authors = EmptyDict
    /\ references_flat = <<>>
    /\ id2idx = EmptyDict
    /\ idx = 0
    /\ cur = Defaults
    /\ nread = 0
    /\ nfiles = 0
    /\ input = <<>>
    /\ fsops = {}
    /\ v8Runs = 0
    /\ v10Runs = 0
    /\ disk \in InitDisks

Next ==
    \/ CallPreprocess
    \/ CallReadV8
    \/ CallReadV10
    \/ CallWriteRaw
    \/ CallCreateGraph
    \/ CallLoadRaw
    \/ PreStart
    \/ PreDual
    \/ PreSelect
    \/ PreDumpRaw
    \/ PreGraph
    \/ V8Open
    \/ V8Line
    \/ V8Eof
    \/ V8Resolve
    \/ V10Walk
    \/ V10Line
    \/ V10EndFile
    \/ V10Resolve

Spec == Init /\ [][Next]_vars

-----------------------------------------------------------------------------
\* Vocabulary of the properties

InCall(fn) == ncalls > 0 /\ call.fn = fn
InParser(fn) == stack # <<>> /\ Top.fn = fn
AtResolve ==
    /\ exc = "none"
    /\ stack # <<>>
    /\ Top.fn \in {"read_v8", "read_v10"}
    /\ Top.pc = "resolve"
Ended == exc # "none" \/ stack = <<>>
Image(f) == {f[k] : k \in DOMAIN f}

RECURSIVE AllLines(_)
AllLines(inp) == IF inp = <<>> THEN <<>> ELSE Head(inp) \o AllLines(Tail(inp))

\* The key k of the id mapping is the id the reference target names (the
\* writer of a "#%1" line means the record of "#index1")
SameId(k, target) ==
    \/ k = target
    \/ /\ target.t = "int"
       /\ k.t = "str"
       /\ PyInt(k.s).ok
       /\ PyInt(k.s).val = target.n

\* A reference whose target never appears as the id of a parsed record
Dangling(e) == \A k \in DOMAIN id2idx : ~SameId(k, e[2])
HasDangling == \E i \in 1..Len(references_flat) : Dangling(references_flat[i])

\* The case of a dangling reference alone: every citing record is a parsed
\* record (its id line came before its reference lines)
CitingKnown ==
    \A i \in 1..Len(references_flat) : references_flat[i][1] \in DOMAIN id2idx

\* Valid V10 input read so far: decodable records with a byline, distinct ids
ValidV10Input ==
    LET recs == AllLines(input)
    IN /\ \A i \in 1..Len(recs) : recs[i].json /\ recs[i].authors # <<>>
       /\ \A i, j \in 1..Len(recs) : i # j => recs[i].id # recs[j].id

-----------------------------------------------------------------------------
\* C1: while and after read_v10 reads valid records with pairwise distinct
\* ids, the parse has not failed on a record and the indices of the id
\* mapping are pairwise distinct and are exactly 0 .. paper_count - 1, where
\* paper_count is the number of record lines read.
C1_DenseIndices ==
    (InParser("read_v10") /\ ValidV10Input) =>
        /\ exc \in {"none", "FileNotFoundError"}
        /\ Cardinality(DOMAIN id2idx) = Len(AllLines(input))
        /\ Image(id2idx) = 0..(Len(AllLines(input)) - 1)

C4_ConfigErrorBeforeIO ==
    (InCall("preprocess") /\ ~call.a.v10 /\ ~call.a.v8) =>
        /\ fsops = {}
        /\ v8Runs = 0
        /\ v10Runs = 0
        /\ Len(stack) = 1
        /\ exc \in {"none", "ValueError"}
        /\ exc = "none" => ENABLED (PreStart \/ PreDual \/ PreSelect)

\* A call with neither format, asked to dump raw data under a given path, has
\* ended in the configuration error.
C4_Witness ==
    /\ InCall("preprocess")
    /\ ~call.a.v10
    /\ ~call.a.v8
    /\ call.a.dumpRawData
    /\ call.a.dumpGraph
    /\ call.a.data_path = "P"
    /\ exc = "ValueError"

\* C6: once write_raw(data_path, d) has been called on a parsed dataset d, it
\* has not raised and load_raw(data_path, net_struct=False) reads back d's
\* Paper mapping, author indices and reference list.
C6_RoundTrip ==
    InCall("write_raw") =>
        /\ exc = "none"
        /\ LET r == load_raw(disk, call.a.data_path, FALSE)
           IN /\ r.exc = "none"
              /\ r.val.papers = parsed_data.papers
              /\ r.val.first_authors = parsed_data.first_authors
              /\ r.val.collaboration_authors = parsed_data.collaboration_authors
              /\ r.val.references_flat = parsed_data.references_flat

\* C7: in read_v8, a non-tagged line (here after a record with a byline)
\* stores the Paper of the working fields under the current index, registers
\* its authors under that index, advances the index by one and resets the
\* working fields; a tagged line changes neither the index nor the number of
\* stored papers.
C7_FinalizeIffNonTagged ==
    [][(Running("read_v8", "loop") /\ input' # input) =>
          LET line == input'[1][Len(input'[1])]
          IN IF line[1] # "#"
             THEN cur.authors # <<>> =>
                    /\ exc' = "none"
                    /\ Len(papers') = Len(papers) + 1
                    /\ papers'[idx + 1] = Paper(cur.title, cur.authors, cur.venue,
                                                cur.year, cur.abstract)
                    /\ cur.authors[1] \in DOMAIN first_authors'
                    /\ \A a \in {cur.authors[i] : i \in 1..Len(cur.authors)} :
                           a \in DOMAIN collaboration_authors'
                    /\ idx' = idx + 1
                    /\ cur' = Defaults
             ELSE /\ idx' = idx
                  /\ Len(papers') = Len(papers)]_vars

\* C8: once create_graph has been called (with igraph, its default) on a
\* parsed dataset of N papers and edge list E, it has returned a graph of
\* exactly N vertices whose edges are the elements of E, in order, duplicates
\* and loops included.
C8_GraphOfDataset ==
    (InCall("create_graph") /\ call.flag) =>
        /\ exc = "none"
        /\ graph.present
        /\ graph.n = Len(parsed_data.papers)
        /\ graph.edges = parsed_data.references_flat

\* C9: in a call preprocess(v10=True, v8=True) the self-invocation is nested
\* at most one level deep and no parser runs twice; and once the call has
\* ended, the V8 parse having returned its dataset and no file having been
\* found missing, the V8 parse and the V10 parse have each run exactly once.
C9_BothParsedOnce ==
    (InCall("preprocess") /\ call.a.v10 /\ call.a.v8) =>
        /\ Len(stack) <= 3
        /\ Cardinality({i \in 1..Len(stack) : stack[i].fn = "preprocess"}) <= 2
        /\ v8Runs <= 1
        /\ v10Runs <= 1
        /\ (/\ Ended
            /\ exc # "FileNotFoundError"
            /\ \E i \in 1..Len(stack) : stack[i].d.present) =>
              (v8Runs = 1 /\ v10Runs = 1)

\* C10: in read_v8, once the file is consumed or a non-tagged line has ended
\* the records read so far, every id of the id mapping is mapped to an index
\* under which a Paper is stored (a consequence of the claim: the index of
\* the id is the index of the record's Paper).
C10_MappedIndexHasPaper ==
    (/\ InParser("read_v8")
     /\ input # <<>>
     /\ \/ Top.pc = "resolve"
        \/ /\ input[1] # <<>>
           /\ input[1][Len(input[1])][1] # "#") =>
        \A k \in DOMAIN id2idx : id2idx[k] < Len(papers)

-----------------------------------------------------------------------------
\* What no parse of this code reaches (C2 and C5 speak of these cases):
\* a stored paper, a registered author, a returned edge.
NothingStored ==
    /\ papers = <<>>
    /\ first_authors = EmptyDict
    /\ collaboration_authors = EmptyDict
    /\ parsed_data.papers = <<>>
    /\ parsed_data.references_flat = <<>>
    /\ \A i \in 1..Len(stack) : stack[i].d.references_flat = <<>>

====
